---- MODULE Spec2Model ----
(***************************************************************************)
(* Model of the two geoprocessing scripts clip_dem.py and                  *)
(* ArthurGEOG567_Final.py.  Each script is a linear procedure over the     *)
(* arcpy toolbox; the model follows the script line by line, one action    *)
(* per toolbox call or check.  The toolbox is a black box: a geoprocessing *)
(* tool either completes or raises, addDataFromPath returns a layer,       *)
(* returns nothing or raises, and the metadata it reports (table fields,   *)
(* extents, DEM data type) are inputs drawn from small sets.  The host's   *)
(* messaging functions (AddMessage, AddError, SetParameterAsText) and the  *)
(* metadata lookups on datasets known to exist do not raise.               *)
(***************************************************************************)
EXTENDS Integers, Sequences, FiniteSets

\* Largest coordinate of the point extent reported by Describe.
MaxCoord == 1

Scripts == {"clip_dem", "Arthur"}

\* Field names a CSV header may hold besides the two the scripts look for
\* (the names are compared exactly, so "longitude" is not "Longitude").
OtherFields == {"longitude"}

x_field == "Longitude"

y_field == "Latitude"

VARIABLES
    script,          \* which of the two scripts runs
    csv_fields,      \* header of the input CSV
    dem,             \* what dem_path refers to: "missing", or its dataType
    pc,              \* position of the run in the script
    table_fields,    \* fields of in_memory\temp_table
    datasets,        \* temporary in_memory datasets that exist now
    deleted,         \* temporary datasets Delete_management has removed
    calls,           \* toolbox calls made so far, in order
    failed,          \* toolbox calls that raised
    messages,        \* AddMessage / AddError log, in order
    layers,          \* value of each *_layer variable
    map_layers,      \* datasets in the active map's layer list, in order of addition
    moves,           \* moveLayer calls made, in order
    extent,          \* extent of the projected points
    dem_extent,      \* extent of the DEM raster
    box,             \* xmin, ymin, xmax, ymax after the buffer
    clip_rectangle,  \* the rectangle string handed to Clip
    params,          \* indices set by SetParameterAsText
    raised           \* the run ended by an exception

env == <<script, csv_fields, dem>>

vars == <<script, csv_fields, dem, pc, table_fields, datasets, deleted, calls,
          failed, messages, layers, map_layers, moves, extent, dem_extent, box,
          clip_rectangle, params, raised>>

----------------------------------------------------------------------------
\* Rectangles and the rectangle string

Rect(a, b, c, d) == [XMin |-> a, YMin |-> b, XMax |-> c, YMax |-> d]

NoRect == Rect(0, 0, 0, 0)

DigitChars == <<"0", "1", "2", "3", "4", "5", "6", "7", "8", "9">>

RECURSIVE Digits(_)
Digits(n) ==
    IF n < 10 THEN <<DigitChars[n + 1]>>
    ELSE Digits(n \div 10) \o <<DigitChars[(n % 10) + 1]>>

\* str() of a float holding a whole number: "-200000.0", "5000.0", "0.0".
FormatFloat(n) ==
    (IF n < 0 THEN <<"-">> ELSE <<>>) \o Digits(IF n < 0 THEN -n ELSE n) \o <<".", "0">>

\* f"{xmin} {ymin} {xmax} {ymax}"
FormatRectangle(b) ==
    FormatFloat(b.XMin) \o <<" ">> \o FormatFloat(b.YMin) \o <<" ">>
        \o FormatFloat(b.XMax) \o <<" ">> \o FormatFloat(b.YMax)

DigitValue(c) == (CHOOSE i \in 1..10 : DigitChars[i] = c) - 1

RECURSIVE ParseDigits(_, _)
ParseDigits(s, acc) ==
    IF s = <<>> \/ Head(s) = "." THEN acc
    ELSE ParseDigits(Tail(s), 10 * acc + DigitValue(Head(s)))

ParseFloat(s) ==
    IF s # <<>> /\ Head(s) = "-" THEN -ParseDigits(Tail(s), 0) ELSE ParseDigits(s, 0)

RECURSIVE SplitOnSpace(_, _, _)
SplitOnSpace(s, cur, acc) ==
    IF s = <<>> THEN Append(acc, cur)
    ELSE IF Head(s) = " " THEN SplitOnSpace(Tail(s), <<>>, Append(acc, cur))
    ELSE SplitOnSpace(Tail(s), Append(cur, Head(s)), acc)

\* The envelope Clip reads from its rectangle parameter: four numbers separated
\* by spaces, in the order XMin YMin XMax YMax.
ParseRectangle(s) ==
    LET t == SplitOnSpace(s, <<>>, <<>>)
    IN  IF Len(t) # 4 THEN NoRect
        ELSE Rect(ParseFloat(t[1]), ParseFloat(t[2]), ParseFloat(t[3]), ParseFloat(t[4]))

----------------------------------------------------------------------------
\* Inputs

\* buffer = 200000  # Increased buffer size
buffer_clip_dem == 200000

\* buffer = 5000  # Adjust buffer size as needed
buffer_Arthur == 5000

buffer == IF script = "clip_dem" THEN buffer_clip_dem ELSE buffer_Arthur

PointCoords == 0..MaxCoord

WellFormed(r) == r.XMin <= r.XMax /\ r.YMin <= r.YMax

\* Extents Describe(output_fc_path).extent may report.
PointExtents ==
    {r \in {Rect(a, b, c, d) : a \in PointCoords, b \in PointCoords,
                               c \in PointCoords, d \in PointCoords} : WellFormed(r)}

\* DEM coordinates on either side of, and exactly on, the buffered point extent.
DemCoords ==
    {-buffer_clip_dem - 1, -buffer_clip_dem, 0,
     buffer_clip_dem + MaxCoord, buffer_clip_dem + MaxCoord + 1}

\* Extents Describe(dem_path).extent may report.
DemExtents ==
    {r \in {Rect(a, b, c, d) : a \in DemCoords, b \in DemCoords,
                               c \in DemCoords, d \in DemCoords} : WellFormed(r)}

LayerVars == {"hillshade_layer", "slope_layer", "aspect_layer", "curvature_layer",
              "elevation_layer", "output_fc_layer"}

Message(t) == [kind |-> "Message", text |-> t]

Error(t) == [kind |-> "Error", text |-> t]

Init ==
    /\ script \in Scripts
    /\ csv_fields \in SUBSET ({x_field, y_field} \cup OtherFields)
    /\ dem \in {"missing", "FeatureClass", "RasterDataset"}
    /\ pc = "TableToTable"
    /\ table_fields = {}
    /\ datasets = {}
    /\ deleted = {}
    /\ calls = <<>>
    /\ failed = {}
    /\ messages = <<>>
    /\ layers = [v \in LayerVars |-> "unset"]
    /\ map_layers = <<>>
    /\ moves = <<>>
    /\ extent = NoRect
    /\ dem_extent = NoRect
    /\ box = NoRect
    /\ clip_rectangle = <<>>
    /\ params = {}
    /\ raised = FALSE

----------------------------------------------------------------------------
\* Exceptions

\* Propagate with a handler that logs and forgets to re-raise: the script goes on
\* to set its output parameters.
Propagate_Swallowed(log) ==
    /\ pc' = "SetParameterAsText"
    /\ raised' = raised
    /\ messages' = messages \o log \o <<Error("Script failed with error")>>

\* An exception leaves the script.  In ArthurGEOG567_Final.py the whole script is
\* inside try/except: the handler logs "Script failed ..." and re-raises.  In
\* clip_dem.py nothing catches it.  `log` is what was logged before the raise.
Propagate(log) ==
    /\ pc' = "done"
    /\ raised' = TRUE
    /\ messages' = messages \o log \o
            (IF script = "Arthur" THEN <<Error("Script failed with error")>> ELSE <<>>)

----------------------------------------------------------------------------
\* The steps the two scripts share

\* arcpy.TableToTable_conversion(input_csv, "in_memory", "temp_table")
TableToTable ==
    /\ pc = "TableToTable"
    /\ calls' = Append(calls, "TableToTable")
    /\ \E ok \in BOOLEAN :
          IF ok
          THEN /\ datasets' = datasets \cup {"temp_table"}
               /\ table_fields' = csv_fields \cup {"OBJECTID"}
               /\ pc' = "ColumnCheck"
               /\ UNCHANGED <<failed, messages, raised>>
          ELSE /\ failed' = failed \cup {"TableToTable"}
               /\ Propagate(<<>>)
               /\ UNCHANGED <<datasets, table_fields>>
    /\ UNCHANGED <<env, deleted, layers, map_layers, moves, extent, dem_extent,
                   box, clip_rectangle, params>>

\* MissingField looking for the first of the two fields only.
MissingField_FirstOnly(field_names) == x_field \notin field_names

\* for field in [x_field, y_field]: if field not in field_names
MissingField(field_names) ==
    \E field \in {x_field, y_field} : field \notin field_names

ColumnCheck ==
    /\ pc = "ColumnCheck"
    /\ LET field_names == table_fields
       IN  IF MissingField(field_names)
           THEN Propagate(<<Error("CSV must contain fields 'Longitude' and 'Latitude'")>>)
           ELSE /\ pc' = "XYTableToPoint"
                /\ UNCHANGED <<messages, raised>>
    /\ UNCHANGED <<env, table_fields, datasets, deleted, calls, failed, layers,
                   map_layers, moves, extent, dem_extent, box, clip_rectangle, params>>

\* arcpy.management.XYTableToPoint(temp_table, temp_fc_wgs84, x_field, y_field, "", wgs84)
XYTableToPoint ==
    /\ pc = "XYTableToPoint"
    /\ calls' = Append(calls, "XYTableToPoint")
    /\ \E ok \in BOOLEAN :
          IF ok
          THEN /\ datasets' = datasets \cup {"temp_fc_wgs84"}
               /\ pc' = "DemCheck"
               /\ UNCHANGED <<failed, messages, raised>>
          ELSE /\ failed' = failed \cup {"XYTableToPoint"}
               /\ Propagate(<<>>)
               /\ UNCHANGED datasets
    /\ UNCHANGED <<env, table_fields, deleted, layers, map_layers, moves, extent,
                   dem_extent, box, clip_rectangle, params>>

\* DemError without the dataType test.
DemError_ExistenceOnly(d) ==
    IF d = "missing" THEN "DEM file does not exist." ELSE "none"

\* if not arcpy.Exists(dem_path) ... if arcpy.Describe(dem_path).dataType != 'RasterDataset'
\* The error the validation reports, or "none".
DemError(d) ==
    IF d = "missing" THEN "DEM file does not exist."
    ELSE IF d # "RasterDataset" THEN "The file is not a valid raster dataset."
    ELSE "none"

DemCheck ==
    /\ pc = "DemCheck"
    /\ IF DemError(dem) # "none"
       THEN Propagate(<<Error(DemError(dem))>>)
       ELSE /\ pc' = "Project"
            /\ UNCHANGED <<messages, raised>>
    /\ UNCHANGED <<env, table_fields, datasets, deleted, calls, failed, layers,
                   map_layers, moves, extent, dem_extent, box, clip_rectangle, params>>

\* arcpy.management.Project(temp_fc_wgs84, output_fc_path, ...)
Project ==
    /\ pc = "Project"
    /\ calls' = Append(calls, "Project")
    /\ \E ok \in BOOLEAN :
          IF ok
          THEN /\ pc' = IF script = "Arthur" THEN "ProjectRaster" ELSE "Buffer"
               /\ messages' = messages \o
                     (IF script = "Arthur"
                      THEN <<Message("Projected point feature class to Alberta 3TM 114 NAD 83")>>
                      ELSE <<>>)
               /\ UNCHANGED <<failed, raised>>
          ELSE /\ failed' = failed \cup {"Project"}
               /\ Propagate(<<>>)
    /\ UNCHANGED <<env, table_fields, datasets, deleted, layers, map_layers, moves,
                   extent, dem_extent, box, clip_rectangle, params>>

\* arcpy.management.ProjectRaster(dem_path, projected_dem, alberta_3tm)
ProjectRaster ==
    /\ pc = "ProjectRaster"
    /\ calls' = Append(calls, "ProjectRaster")
    /\ \E ok \in BOOLEAN :
          IF ok
          THEN /\ datasets' = datasets \cup {"projected_dem"}
               /\ pc' = "Buffer"
               /\ messages' = Append(messages, Message("Projected DEM to Alberta 3TM 114"))
               /\ UNCHANGED <<failed, raised>>
          ELSE /\ failed' = failed \cup {"ProjectRaster"}
               /\ Propagate(<<>>)
               /\ UNCHANGED datasets
    /\ UNCHANGED <<env, table_fields, deleted, layers, map_layers, moves, extent,
                   dem_extent, box, clip_rectangle, params>>

\* Expand with the upper bounds moved the wrong way (-= for all four).
Expand_AllSubtracted(r, m) == Rect(r.XMin - m, r.YMin - m, r.XMax - m, r.YMax - m)

\* xmin -= buffer; ymin -= buffer; xmax += buffer; ymax += buffer
Expand(r, m) == Rect(r.XMin - m, r.YMin - m, r.XMax + m, r.YMax + m)

\* extent = arcpy.Describe(output_fc_path).extent, then the buffer
Buffer ==
    /\ pc = "Buffer"
    /\ \E e \in PointExtents :
          /\ extent' = e
          /\ box' = Expand(e, buffer)
    /\ pc' = IF script = "clip_dem" THEN "OverlapCheck" ELSE "Clip"
    /\ UNCHANGED <<env, table_fields, datasets, deleted, calls, failed, messages,
                   layers, map_layers, moves, dem_extent, clip_rectangle, params, raised>>

\* NonOverlapping with >= and <=: rectangles that only touch count as disjoint.
NonOverlapping_Strict(b, d) ==
    b.XMin >= d.XMax \/ b.XMax <= d.XMin \/ b.YMin >= d.YMax \/ b.YMax <= d.YMin

\* if xmin > dem_extent.XMax or xmax < dem_extent.XMin or
\*    ymin > dem_extent.YMax or ymax < dem_extent.YMin
NonOverlapping(b, d) ==
    b.XMin > d.XMax \/ b.XMax < d.XMin \/ b.YMin > d.YMax \/ b.YMax < d.YMin

\* clip_dem.py only: dem_extent = arcpy.Describe(dem_path).extent, then the check
OverlapCheck ==
    /\ pc = "OverlapCheck"
    /\ \E d \in DemExtents :
          /\ dem_extent' = d
          /\ LET log == <<Message("Points extent"), Message("DEM extent")>>
             IN  IF NonOverlapping(box, d)
                 THEN Propagate(log \o <<Error("The extent of the points does not overlap with the extent of the DEM raster.")>>)
                 ELSE /\ pc' = "Clip"
                      /\ messages' = messages \o log
                      /\ UNCHANGED raised
    /\ UNCHANGED <<env, table_fields, datasets, deleted, calls, failed, layers,
                   map_layers, moves, extent, box, clip_rectangle, params>>

\* f"{xmin} {ymin} {xmax} {ymax}", the rectangle argument of Clip
ClipArgument(b) == FormatRectangle(b)

\* arcpy.management.Clip(dem, f"{xmin} {ymin} {xmax} {ymax}", clipped_dem, ...)
Clip ==
    /\ pc = "Clip"
    /\ calls' = Append(calls, "Clip")
    /\ clip_rectangle' = ClipArgument(box)
    /\ LET before == IF script = "Arthur"
                     THEN <<Message("Clipping DEM to the extent of points...")>>
                     ELSE <<>>
       IN  \E ok \in BOOLEAN :
             IF ok
             THEN /\ pc' = IF script = "Arthur" THEN "Slope" ELSE "Cleanup"
                  /\ messages' = messages \o before \o
                        <<Message(IF script = "Arthur" THEN "Clipped DEM saved"
                                  ELSE "DEM clipped successfully to the extent of the points")>>
                  /\ UNCHANGED <<failed, raised>>
             ELSE /\ failed' = failed \cup {"Clip"}
                  /\ Propagate(before \o
                        (IF script = "clip_dem" THEN <<Error("Failed to clip DEM")>> ELSE <<>>))
    /\ UNCHANGED <<env, table_fields, datasets, deleted, layers, map_layers, moves,
                   extent, dem_extent, box, params>>

----------------------------------------------------------------------------
\* ArthurGEOG567_Final.py only: the terrain rasters and the map

\* Slope, Aspect, Curvature, Hillshade (each saved), then ExtractMultiValuesToPoints
SurfaceTools ==
    <<[tool |-> "Slope", start |-> "Calculating slope percent...",
       end |-> "Slope percent raster saved"],
      [tool |-> "Aspect", start |-> "Calculating aspect...",
       end |-> "Aspect raster saved"],
      [tool |-> "Curvature", start |-> "Calculating slope curvature...",
       end |-> "Slope curvature raster saved"],
      [tool |-> "Hillshade", start |-> "Generating hillshade...",
       end |-> "Hillshade raster saved"],
      [tool |-> "ExtractMultiValuesToPoints", start |-> "Extracting raster values to points...",
       end |-> "Raster values extracted to points feature class"]>>

SurfaceTool(i) ==
    /\ pc = SurfaceTools[i].tool
    /\ calls' = Append(calls, SurfaceTools[i].tool)
    /\ \E ok \in BOOLEAN :
          IF ok
          THEN /\ pc' = IF i < Len(SurfaceTools) THEN SurfaceTools[i + 1].tool
                        ELSE "ArcGISProject"
               /\ messages' = messages \o
                     <<Message(SurfaceTools[i].start), Message(SurfaceTools[i].end)>>
               /\ UNCHANGED <<failed, raised>>
          ELSE /\ failed' = failed \cup {SurfaceTools[i].tool}
               /\ Propagate(<<Message(SurfaceTools[i].start)>>)
    /\ UNCHANGED <<env, table_fields, datasets, deleted, layers, map_layers, moves,
                   extent, dem_extent, box, clip_rectangle, params>>

\* aprx = arcpy.mp.ArcGISProject("CURRENT"); m = aprx.activeMap
ArcGISProject ==
    /\ pc = "ArcGISProject"
    /\ calls' = Append(calls, "ArcGISProject")
    /\ \E ok \in BOOLEAN :
          IF ok
          THEN /\ pc' = "add_hillshade"
               /\ UNCHANGED <<failed, messages, raised>>
          ELSE /\ failed' = failed \cup {"ArcGISProject"}
               /\ Propagate(<<>>)
    /\ UNCHANGED <<env, table_fields, datasets, deleted, layers, map_layers, moves,
                   extent, dem_extent, box, clip_rectangle, params>>

\* The six "X_layer = m.addDataFromPath(X); if <test>: AddMessage else: AddError"
\* blocks: the variable assigned, the dataset added, the variable the if tests,
\* and the two messages.
MapAdds ==
    <<[pc |-> "add_hillshade", var |-> "hillshade_layer", data |-> "hillshade_raster",
       test |-> "hillshade_layer",
       added |-> "Hillshade raster added to the map.",
       failure |-> "Failed to add hillshade raster to the map."],
      [pc |-> "add_slope", var |-> "slope_layer", data |-> "slope_raster",
       test |-> "slope_layer",
       added |-> "Slope raster added to the map.",
       failure |-> "Failed to add slope raster to the map."],
      [pc |-> "add_aspect", var |-> "aspect_layer", data |-> "aspect_raster",
       test |-> "aspect_layer",
       added |-> "Aspect raster added to the map.",
       failure |-> "Failed to add aspect raster to the map."],
      [pc |-> "add_curvature", var |-> "curvature_layer", data |-> "curvature_raster",
       test |-> "curvature_layer",
       added |-> "Curvature raster added to the map.",
       failure |-> "Failed to add curvature raster to the map."],
      [pc |-> "add_elevation", var |-> "elevation_layer", data |-> "clipped_dem",
       test |-> "elevation_layer",
       added |-> "Elevation raster added to the map.",
       failure |-> "Failed to add elevation raster to the map."],
      [pc |-> "add_output_fc", var |-> "output_fc_layer", data |-> "output_fc_path",
       test |-> "elevation_layer",
       added |-> "Point Feature Class added to the map.",
       failure |-> "Failed to add Point Feature Class to the map."]>>

\* What addDataFromPath does: returns a layer, returns nothing, or raises.
AddResults == {"layer", "None", "raise"}

AddData(i) ==
    /\ pc = MapAdds[i].pc
    /\ calls' = Append(calls, "addDataFromPath")
    /\ \E r \in AddResults :
          IF r = "raise"
          THEN /\ failed' = failed \cup {"addDataFromPath"}
               /\ Propagate(<<>>)
               /\ UNCHANGED <<layers, map_layers>>
          ELSE /\ layers' = [layers EXCEPT ![MapAdds[i].var] = r]
               /\ map_layers' = IF r = "layer" THEN Append(map_layers, MapAdds[i].data)
                                ELSE map_layers
               /\ messages' = Append(messages,
                     IF layers'[MapAdds[i].test] = "layer"
                     THEN Message(MapAdds[i].added)
                     ELSE Error(MapAdds[i].failure))
               /\ pc' = IF i < Len(MapAdds) THEN MapAdds[i + 1].pc ELSE "moveLayer"
               /\ UNCHANGED <<failed, raised>>
    /\ UNCHANGED <<env, table_fields, datasets, deleted, moves, extent, dem_extent,
                   box, clip_rectangle, params>>

\* m.moveLayer(hillshade_layer, 1) ... m.moveLayer(elevation_layer, 5)
RasterOrder ==
    <<[layer |-> "hillshade_layer", pos |-> 1],
      [layer |-> "slope_layer", pos |-> 2],
      [layer |-> "aspect_layer", pos |-> 3],
      [layer |-> "curvature_layer", pos |-> 4],
      [layer |-> "elevation_layer", pos |-> 5]>>

\* AllRastersAdded with elevation_layer left out of the condition.
AllRastersAdded_WithoutElevation(l) ==
    \A i \in 1..(Len(RasterOrder) - 1) : l[RasterOrder[i].layer] = "layer"

\* if hillshade_layer and slope_layer and aspect_layer and curvature_layer and elevation_layer
AllRastersAdded(l) ==
    \A i \in 1..Len(RasterOrder) : l[RasterOrder[i].layer] = "layer"

\* The try block that reorders the rasters.  k moveLayer calls complete; when
\* k < 5 the next one raises, the handler logs and re-raises.
MoveLayers ==
    /\ pc = "moveLayer"
    /\ IF AllRastersAdded(layers)
       THEN \E k \in 0..Len(RasterOrder) :
              LET made == IF k < Len(RasterOrder) THEN k + 1 ELSE k
              IN  /\ moves' = moves \o SubSeq(RasterOrder, 1, made)
                  /\ calls' = calls \o [j \in 1..made |-> "moveLayer"]
                  /\ IF k = Len(RasterOrder)
                     THEN /\ messages' = Append(messages,
                                Message("Rasters added to the map with hillshade at the top and elevation at the bottom"))
                          /\ pc' = "add_point_layer"
                          /\ UNCHANGED <<failed, raised>>
                     ELSE /\ failed' = failed \cup {"moveLayer"}
                          /\ Propagate(<<Error("Error moving layers")>>)
       ELSE /\ messages' = Append(messages, Error("Failed to add one or more layers to the map."))
            /\ pc' = "add_point_layer"
            /\ UNCHANGED <<moves, calls, failed, raised>>
    /\ UNCHANGED <<env, table_fields, datasets, deleted, layers, map_layers, extent,
                   dem_extent, box, clip_rectangle, params>>

\* m.moveLayer(output_fc_layer, "TOP"): position 0, the top of the stack
TOP == 0

\* output_fc_layer = m.addDataFromPath(output_fc_path), then the move to the top
AddPointLayer ==
    /\ pc = "add_point_layer"
    /\ \E r \in AddResults :
         CASE r = "raise" ->
                /\ calls' = Append(calls, "addDataFromPath")
                /\ failed' = failed \cup {"addDataFromPath"}
                /\ Propagate(<<>>)
                /\ UNCHANGED <<layers, map_layers, moves>>
           [] r = "None" ->
                /\ calls' = Append(calls, "addDataFromPath")
                /\ layers' = [layers EXCEPT !["output_fc_layer"] = r]
                /\ messages' = Append(messages, Error("Failed to add point feature class to the map."))
                /\ pc' = "listLayers"
                /\ UNCHANGED <<failed, raised, map_layers, moves>>
           [] r = "layer" ->
                /\ calls' = calls \o <<"addDataFromPath", "moveLayer">>
                /\ layers' = [layers EXCEPT !["output_fc_layer"] = r]
                /\ map_layers' = Append(map_layers, "output_fc_path")
                /\ moves' = Append(moves, [layer |-> "output_fc_layer", pos |-> TOP])
                /\ LET log == <<Message("Point feature class added to the map.")>>
                   IN  \E ok \in BOOLEAN :
                         IF ok
                         THEN /\ messages' = messages \o log \o
                                    <<Message("Point layer moved to the top of the map.")>>
                              /\ pc' = "listLayers"
                              /\ UNCHANGED <<failed, raised>>
                         ELSE /\ failed' = failed \cup {"moveLayer"}
                              /\ Propagate(log \o
                                    <<Error("Error moving the point layer to the top")>>)
    /\ UNCHANGED <<env, table_fields, datasets, deleted, extent, dem_extent, box,
                   clip_rectangle, params>>

\* arcpy.AddMessage("Current layer order:"), then one line per layer of the map
ListLayers ==
    /\ pc = "listLayers"
    /\ messages' = messages \o <<Message("Current layer order:")>> \o
                      [j \in 1..Len(map_layers) |-> Message("i: layer.name")]
    /\ pc' = "SomeTool_management"
    /\ UNCHANGED <<env, table_fields, datasets, deleted, calls, failed, layers,
                   map_layers, moves, extent, dem_extent, box, clip_rectangle,
                   params, raised>>

\* try: arcpy.SomeTool_management(input, output)
\* except arcpy.ExecuteError: print(...)   except Exception as e: print(...)
\* arcpy has no SomeTool_management and the script defines no `output`: the call
\* always raises, and both handlers only print: the run goes on.
SomeTool ==
    /\ pc = "SomeTool_management"
    /\ calls' = Append(calls, "SomeTool_management")
    /\ failed' = failed \cup {"SomeTool_management"}
    /\ pc' = "Cleanup"
    /\ UNCHANGED <<env, table_fields, datasets, deleted, messages, layers, map_layers,
                   moves, extent, dem_extent, box, clip_rectangle, params, raised>>

----------------------------------------------------------------------------
\* The end of both scripts

\* The temporary datasets the script deletes, in the order it deletes them.
Temporaries ==
    IF script = "Arthur" THEN <<"temp_table", "temp_fc_wgs84", "projected_dem">>
    ELSE <<"temp_table", "temp_fc_wgs84">>

Range(s) == {s[j] : j \in 1..Len(s)}

\* arcpy.Delete_management(...) for each temporary.  k deletions complete; when
\* k is less than their number the next one raises.
Cleanup ==
    /\ pc = "Cleanup"
    /\ \E k \in 0..Len(Temporaries) :
         LET made == IF k < Len(Temporaries) THEN k + 1 ELSE k
             gone == Range(SubSeq(Temporaries, 1, k))
         IN  /\ calls' = calls \o [j \in 1..made |-> "Delete_management"]
             /\ datasets' = datasets \ gone
             /\ deleted' = deleted \cup gone
             /\ IF k = Len(Temporaries)
                THEN /\ pc' = "SetParameterAsText"
                     /\ messages' = messages \o
                           (IF script = "Arthur"
                            THEN <<Message("Temporary datasets removed.")>> ELSE <<>>)
                     /\ UNCHANGED <<failed, raised>>
                ELSE /\ failed' = failed \cup {"Delete_management"}
                     /\ Propagate(<<>>)
    /\ UNCHANGED <<env, table_fields, layers, map_layers, moves, extent, dem_extent,
                   box, clip_rectangle, params>>

\* arcpy.SetParameterAsText(2, output_fc_path); arcpy.SetParameterAsText(4, clipped_dem)
SetParameterAsText ==
    /\ pc = "SetParameterAsText"
    /\ params' = params \cup {2, 4}
    /\ messages' = Append(messages, Message("Point feature class created"))
    /\ pc' = "done"
    /\ UNCHANGED <<env, table_fields, datasets, deleted, calls, failed, layers,
                   map_layers, moves, extent, dem_extent, box, clip_rectangle, raised>>

Next ==
    \/ TableToTable
    \/ ColumnCheck
    \/ XYTableToPoint
    \/ DemCheck
    \/ Project
    \/ ProjectRaster
    \/ Buffer
    \/ OverlapCheck
    \/ Clip
    \/ \E i \in 1..Len(SurfaceTools) : SurfaceTool(i)
    \/ ArcGISProject
    \/ \E i \in 1..Len(MapAdds) : AddData(i)
    \/ MoveLayers
    \/ AddPointLayer
    \/ ListLayers
    \/ SomeTool
    \/ Cleanup
    \/ SetParameterAsText

Spec == Init /\ [][Next]_vars

----------------------------------------------------------------------------
\* Properties

Called(t) == \E j \in 1..Len(calls) : calls[j] = t

Logged(m) == \E j \in 1..Len(messages) : messages[j] = m

ErrorLogged == \E j \in 1..Len(messages) : messages[j].kind = "Error"

\* temp_table was created: TableToTable_conversion returned.
TableImported == Called("TableToTable") /\ "TableToTable" \notin failed

ColumnError == Error("CSV must contain fields 'Longitude' and 'Latitude'")

\* C1: in both scripts, once the imported table lacks "Longitude" or "Latitude"
\* and the column check has run, the error is logged through AddError, the run
\* has ended by raising and TableToTable is the only toolbox call ever made; a
\* table holding both fields is never rejected by the column check and the run
\* goes on to XYTableToPoint.
C1_ColumnCheckRejects ==
    TableImported /\ pc # "ColumnCheck" =>
        IF "Longitude" \notin table_fields \/ "Latitude" \notin table_fields
        THEN /\ Logged(ColumnError)
             /\ raised
             /\ pc = "done"
             /\ calls = <<"TableToTable">>
        ELSE /\ ~Logged(ColumnError)
             /\ pc = "XYTableToPoint" \/ Called("XYTableToPoint")

\* A run rejected for a table that has "Longitude" and lacks only "Latitude".
C1_Witness ==
    /\ pc = "done"
    /\ raised
    /\ "Longitude" \in table_fields
    /\ "Latitude" \notin table_fields
    /\ "longitude" \in table_fields
    /\ Logged(ColumnError)

OverlapError ==
    Error("The extent of the points does not overlap with the extent of the DEM raster.")

\* The overlap check has run: it logs the DEM extent first.
OverlapChecked == script = "clip_dem" /\ Logged(Message("DEM extent"))

\* C2: in clip_dem.py, with A the expanded point rectangle and B the DEM extent,
\* the run is rejected (AddError, raise, Clip never called) exactly when
\* A.xmin > B.xmax or A.xmax < B.xmin or A.ymin > B.ymax or A.ymax < B.ymin;
\* otherwise, touching rectangles included, Clip is called.
C2_RejectedIffDisjoint ==
    OverlapChecked =>
        LET A == [XMin |-> extent.XMin - 200000, YMin |-> extent.YMin - 200000,
                  XMax |-> extent.XMax + 200000, YMax |-> extent.YMax + 200000]
            B == dem_extent
            disjoint == \/ A.XMin > B.XMax
                        \/ A.XMax < B.XMin
                        \/ A.YMin > B.YMax
                        \/ A.YMax < B.YMin
        IN  /\ Logged(OverlapError) <=> disjoint
            /\ disjoint => raised /\ pc = "done" /\ ~Called("Clip")
            /\ ~disjoint /\ pc # "Clip" => Called("Clip")

\* Clip was called for rectangles that share one corner point only.
C2_Witness ==
    /\ script = "clip_dem"
    /\ Called("Clip")
    /\ box.XMin = dem_extent.XMax
    /\ box.YMin = dem_extent.YMax

\* C3: in both scripts the rectangle Clip receives has the bounds
\* (xmin-m, ymin-m, xmax+m, ymax+m) of the point extent, m the script's margin
\* (200000 in clip_dem.py, 5000 in ArthurGEOG567_Final.py), m > 0; it contains
\* the point extent and xmin <= xmax, ymin <= ymax still hold.
C3_ClipRectangleIsExpandedExtent ==
    Called("Clip") =>
        LET m == IF script = "clip_dem" THEN 200000 ELSE 5000
            R == extent
            C == ParseRectangle(clip_rectangle)
        IN  /\ m = buffer /\ m > 0
            /\ C.XMin = R.XMin - m /\ C.YMin = R.YMin - m
            /\ C.XMax = R.XMax + m /\ C.YMax = R.YMax + m
            /\ C.XMin <= R.XMin /\ C.YMin <= R.YMin
            /\ R.XMax <= C.XMax /\ R.YMax <= C.YMax
            /\ C.XMin <= C.XMax /\ C.YMin <= C.YMax

\* Clip was called in ArthurGEOG567_Final.py for a point extent that is a single point.
C3_Witness ==
    /\ script = "Arthur"
    /\ Called("Clip")
    /\ extent.XMin = extent.XMax
    /\ extent.YMin = extent.YMax
    /\ extent.XMin # extent.YMin

DemInvalid == dem = "missing" \/ dem # "RasterDataset"

\* The DEM validation has run: XYTableToPoint returned and the run is past the check.
DemChecked ==
    Called("XYTableToPoint") /\ "XYTableToPoint" \notin failed /\ pc # "DemCheck"

AfterDemCheck ==
    {"Project", "ProjectRaster", "Clip", "Slope", "Aspect", "Curvature", "Hillshade",
     "ExtractMultiValuesToPoints", "addDataFromPath"}

\* C4: in both scripts, when the DEM path does not exist or is not a
\* 'RasterDataset', no reprojection, clipping, surface, sampling or map call is
\* ever made and the run can only end by raising; once the DEM validation has
\* run, its error has been reported through AddError and the run has raised.
C4_InvalidDemRejected ==
    DemInvalid =>
        /\ \A j \in 1..Len(calls) : calls[j] \notin AfterDemCheck
        /\ pc = "done" => raised
        /\ DemChecked =>
              /\ pc = "done"
              /\ raised
              /\ Logged(Error(IF dem = "missing" THEN "DEM file does not exist."
                              ELSE "The file is not a valid raster dataset."))

\* A run rejected for a DEM path that exists and is not a raster.
C4_Witness ==
    /\ dem = "FeatureClass"
    /\ DemChecked
    /\ raised
    /\ Logged(Error("The file is not a valid raster dataset."))

\* C5 (as claimed): whenever a script has ended, whichever way, every temporary
\* dataset it created has been deleted.
C5_TemporariesDeletedAtEnd ==
    pc = "done" => datasets = {}

\* C6 (as claimed): in ArthurGEOG567_Final.py a run in which some toolbox call
\* raised ends with an exception; no failure is swallowed.
C6_FailuresAbortTheRun ==
    script = "Arthur" /\ pc = "done" /\ failed # {} => raised

RasterLayers == {"hillshade_layer", "slope_layer", "aspect_layer", "curvature_layer",
                 "elevation_layer"}

IsRasterMove(mv) == mv.layer \in RasterLayers

RasterMoves == SelectSeq(moves, IsRasterMove)

\* hillshade->1, slope->2, aspect->3, curvature->4, elevation->5
ExpectedMoves ==
    <<[layer |-> "hillshade_layer", pos |-> 1],
      [layer |-> "slope_layer", pos |-> 2],
      [layer |-> "aspect_layer", pos |-> 3],
      [layer |-> "curvature_layer", pos |-> 4],
      [layer |-> "elevation_layer", pos |-> 5]>>

AllFiveReturned == \A v \in RasterLayers : layers[v] = "layer"

\* The reordering block has run: all six addDataFromPath calls before it
\* returned, and the run is past the block.
ReorderDone == layers["output_fc_layer"] # "unset" /\ pc # "moveLayer"

NumberOfCalls(t) == Cardinality({j \in 1..Len(calls) : calls[j] = t})

\* C7: in ArthurGEOG567_Final.py raster moveLayer calls are made only when all
\* five raster addDataFromPath calls returned a layer, each raster at most once
\* and in the order hillshade->1, slope->2, aspect->3, curvature->4,
\* elevation->5: all five of them once the block has run, unless a moveLayer
\* call raised (logged and re-raised); the point layer's move to TOP then
\* comes after the five.  With a raster layer missing the block makes no raster
\* move, logs the AddError, does not raise, and the run goes on to add the
\* point feature class.
C7_RasterReordering ==
    script = "Arthur" =>
        /\ \E k \in 0..5 : RasterMoves = SubSeq(ExpectedMoves, 1, k)
        /\ RasterMoves # <<>> => AllFiveReturned
        /\ Logged(Error("Error moving layers")) => raised /\ pc = "done"
        /\ ReorderDone /\ AllFiveReturned /\ ~Logged(Error("Error moving layers")) =>
              /\ RasterMoves = ExpectedMoves
              /\ ~Logged(Error("Failed to add one or more layers to the map."))
              /\ \A j \in 1..Len(moves) :
                    moves[j].pos = TOP =>
                        j = 6 /\ SubSeq(moves, 1, 5) = ExpectedMoves
        /\ ReorderDone /\ ~AllFiveReturned =>
              /\ RasterMoves = <<>>
              /\ Logged(Error("Failed to add one or more layers to the map."))
              /\ ~Logged(Error("Error moving layers"))
              /\ pc = "add_point_layer" \/ NumberOfCalls("addDataFromPath") = 7

\* A run that ended normally after the five raster moves and the move to TOP.
C7_Witness ==
    /\ script = "Arthur"
    /\ pc = "done"
    /\ ~raised
    /\ moves = ExpectedMoves \o <<[layer |-> "output_fc_layer", pos |-> 0]>>

\* C8 (as claimed): in ArthurGEOG567_Final.py, after the six addDataFromPath
\* blocks, each dataset's "... added to the map." message is logged exactly
\* when its own call returned a layer, and its "Failed to add ..." error
\* exactly when its own call returned nothing.
C8_MessageMatchesOwnCall ==
    script = "Arthur" /\ pc = "moveLayer" =>
        /\ Logged(Message("Hillshade raster added to the map."))
              <=> layers["hillshade_layer"] = "layer"
        /\ Logged(Error("Failed to add hillshade raster to the map."))
              <=> layers["hillshade_layer"] = "None"
        /\ Logged(Message("Slope raster added to the map."))
              <=> layers["slope_layer"] = "layer"
        /\ Logged(Error("Failed to add slope raster to the map."))
              <=> layers["slope_layer"] = "None"
        /\ Logged(Message("Aspect raster added to the map."))
              <=> layers["aspect_layer"] = "layer"
        /\ Logged(Error("Failed to add aspect raster to the map."))
              <=> layers["aspect_layer"] = "None"
        /\ Logged(Message("Curvature raster added to the map."))
              <=> layers["curvature_layer"] = "layer"
        /\ Logged(Error("Failed to add curvature raster to the map."))
              <=> layers["curvature_layer"] = "None"
        /\ Logged(Message("Elevation raster added to the map."))
              <=> layers["elevation_layer"] = "layer"
        /\ Logged(Error("Failed to add elevation raster to the map."))
              <=> layers["elevation_layer"] = "None"
        /\ Logged(Message("Point Feature Class added to the map."))
              <=> layers["output_fc_layer"] = "layer"
        /\ Logged(Error("Failed to add Point Feature Class to the map."))
              <=> layers["output_fc_layer"] = "None"

\* C9 (as claimed): in ArthurGEOG567_Final.py no output dataset is in the map's
\* layer list twice, and a run that ended normally with every addDataFromPath
\* call returning a layer has added exactly six layers.
C9_EachDatasetAddedOnce ==
    script = "Arthur" =>
        /\ \A i \in 1..Len(map_layers) : \A j \in 1..Len(map_layers) :
              map_layers[i] = map_layers[j] => i = j
        /\ pc = "done" /\ ~raised /\ (\A v \in LayerVars : layers[v] = "layer") =>
              Len(map_layers) = 6

\* C10: in both scripts the output parameters 2 and 4 are set together, and
\* only in runs where the column check, the DEM check and (clip_dem.py) the
\* overlap check passed and Clip returned; a run that ended by raising has set
\* neither.
C10_ParametersSetOnlyOnSuccess ==
    /\ params = {} \/ params = {2, 4}
    /\ raised => params = {}
    /\ params # {} =>
          /\ pc = "done"
          /\ "Longitude" \in table_fields /\ "Latitude" \in table_fields
          /\ dem = "RasterDataset"
          /\ script = "clip_dem" =>
                ~(\/ box.XMin > dem_extent.XMax
                  \/ box.XMax < dem_extent.XMin
                  \/ box.YMin > dem_extent.YMax
                  \/ box.YMax < dem_extent.YMin)
          /\ Called("Clip") /\ "Clip" \notin failed

\* A run of clip_dem.py that ended normally with both parameters set.
C10_Witness ==
    /\ script = "clip_dem"
    /\ pc = "done"
    /\ ~raised
    /\ params = {2, 4}

====
